---------------------------- MODULE Spec2Model ----------------------------
(***************************************************************************)
(* A model of the smooth-pursuit experiment: the trajectories              *)
(* (trajectory.py), the stimuli (stimulus.py), the per-trial frame loop    *)
(* (experiment_section.py), the eye-tracker wrapper (eyetracker.py) and    *)
(* the section loop (experiment.py).                                       *)
(*                                                                         *)
(* Units.  Time is counted in clock ticks; one tick is the shortest time   *)
(* a win.flip() blocks for (one display refresh), and a flip that misses   *)
(* refreshes blocks for more ticks.  Clock readings taken without a        *)
(* blocking call in between fall in the same tick.  Positions are pixels.  *)
(* Python floats are modelled by integers; a quotient that need not be     *)
(* integral (req_sec) is kept as a fraction [num, den].                    *)
(***************************************************************************)
EXTENDS Integers, Sequences, FiniteSets, TLC

VARIABLES
    settings,         \* classes.utilities.settings.settings (read-only after load)
    sections,         \* Experiment.sections, each with its own data dict
    cur,              \* index of the section Experiment.run is at
    pc,               \* position of the (single) thread of control
    req_sec,          \* SPTrialSection.req_sec of the current section
    stimulus,         \* SPTrialSection.stimulus of the current section
    rows,             \* move_target: rows
    frame,            \* move_target: frame
    target_position,  \* move_target: target_position
    now,              \* reading of experiment_clock (created at time 0)
    trial_start,      \* reading of `now` when trial_clock was created
    keybuf,           \* psychopy event buffer: keys pressed and not yet fetched/cleared
    el,               \* the EyeTracker and the pylink tracker behind it
    file,             \* rows of the data file <filename>.csv after the header
    log,              \* history: the calls made so far, in order
    swarm,            \* a SwarmStimulus (used by SpecSwarm only)
    traj              \* a Trajectory while its __init__ runs (used by SpecTraj only)

vars == <<settings, sections, cur, pc, req_sec, stimulus, rows, frame,
          target_position, now, trial_start, keybuf, el, file, log, swarm, traj>>

-----------------------------------------------------------------------------
(* Bounds of the model *)

\* a win.flip() blocks for 1..MaxFrameTicks ticks (MaxFrameTicks > 1: dropped frames)
MaxFrameTicks == 2

\* recalibrations requested at one fixation instruction
MaxRecalibrations == 1

\* elapsed times tried by the stand-alone stimulus specification
MaxTime == 4

\* number of element slots of the swarm tried by SpecSwarm
MaxElements == 3

\* number of sections of the experiments tried by SpecRun
MaxSections == 3

\* number of rows a section of SpecRun returns at most
MaxRows == 2

-----------------------------------------------------------------------------
(* Values *)

\* the value of data fields that are not set yet
None == -1

\* SPTrialSection.__init__ default time_offset
TimeOffset == 0

LinearTags == {"hor_right", "hor_left", "ver_up", "ver_down",
               "diag_up_right", "diag_up_left", "diag_down_right", "diag_down_left"}

CircularTags == {"cir_clock", "cir_counter"}

TargetTypes == {"moving_circle", "jumping_circle", "back_and_forth_array"}

\* settings["monitor"]: physical height and viewing distance (same unit) and
\* the vertical resolution.  height = 2 * distance makes the half field of
\* view atan2(.5 * height, distance) exactly 45 degrees.
Monitors == { [height |-> 2, distance |-> 1, resolution |-> <<320, 180>>, refresh_rate |-> 60],
              [height |-> 2, distance |-> 1, resolution |-> <<640, 360>>, refresh_rate |-> 60] }

\* degrees(atan2(y, x)) on the eight compass directions and at the origin
\* (math.atan2(0, 0) = 0); y and x are only ever compared with 0 and with
\* each other, so any pair with |x| = |y|, x = 0 or y = 0 is covered.
Atan2Deg(y, x) ==
    CASE x = 0 /\ y = 0  -> 0
      [] y = 0 /\ x > 0  -> 0
      [] y = 0 /\ x < 0  -> 180
      [] x = 0 /\ y > 0  -> 90
      [] x = 0 /\ y < 0  -> 0 - 90
      [] x > 0 /\ y = x  -> 45
      [] x < 0 /\ y = 0 - x -> 135
      [] x < 0 /\ y = x  -> 0 - 135
      [] x > 0 /\ y = 0 - x -> 0 - 45

\* cos(radians(a)) and sin(radians(a)) for a whole number of quarter turns
CosDeg(a) ==
    CASE a % 360 = 0   -> 1
      [] a % 360 = 90  -> 0
      [] a % 360 = 180 -> 0 - 1
      [] a % 360 = 270 -> 0

SinDeg(a) ==
    CASE a % 360 = 0   -> 0
      [] a % 360 = 90  -> 1
      [] a % 360 = 180 -> 0
      [] a % 360 = 270 -> 0 - 1

\* Utilities.deg_to_px: deg / degrees(atan2(.5*height, distance)) * (.5*resolution[1])
\* (atan2(.5*height, distance) = atan2(height, 2*distance); Python's
\* resolution[1] is the second element)
DegToPx(deg, monitor) ==
    (deg * (monitor.resolution[2] \div 2))
        \div Atan2Deg(monitor.height, 2 * monitor.distance)

\* Python's round(a / b) for a >= 0, b > 0: to the nearest integer, ties to even
Round(a, b) ==
    LET q == a \div b
        r == a % b
    IN  IF 2 * r < b THEN q
        ELSE IF 2 * r > b THEN q + 1
        ELSE IF q % 2 = 0 THEN q ELSE q + 1

-----------------------------------------------------------------------------
(* trajectory.py *)

\* HorizontalTrajectory / VerticalTrajectory / DiagonalTrajectory.__init__
Trajectory(kind, distance_px, direction) ==
    [kind |-> kind, distance_px_halfed |-> distance_px \div 2, direction |-> direction]

HorizontalUpdatePosition(tr, current_position, time_step, speed) ==
    IF tr.direction = "left"
    THEN <<((0 - speed) * time_step) + tr.distance_px_halfed, current_position[2]>>
    ELSE <<speed * time_step - tr.distance_px_halfed, current_position[2]>>

VerticalUpdatePosition(tr, current_position, time_step, speed) ==
    IF tr.direction = "up"
    THEN <<current_position[1], (speed * time_step) - tr.distance_px_halfed>>
    ELSE <<current_position[1], ((0 - speed) * time_step) + tr.distance_px_halfed>>

\* A diagonal trajectory whose up_left and down_right branches are exchanged
DiagonalUpdatePositionMirrored(tr, current_position, time_step, speed) ==
    LET plus  == (speed * time_step) - tr.distance_px_halfed
        minus == ((0 - speed) * time_step) + tr.distance_px_halfed
    IN  IF tr.direction = "up_right" THEN <<plus, plus>>
        ELSE IF tr.direction = "up_left" THEN <<plus, minus>>
        ELSE IF tr.direction = "down_right" THEN <<minus, plus>>
        ELSE <<minus, minus>>

DiagonalUpdatePosition(tr, current_position, time_step, speed) ==
    LET plus  == (speed * time_step) - tr.distance_px_halfed
        minus == ((0 - speed) * time_step) + tr.distance_px_halfed
    IN  IF tr.direction = "up_right" THEN <<plus, plus>>
        ELSE IF tr.direction = "up_left" THEN <<minus, plus>>
        ELSE IF tr.direction = "down_right" THEN <<plus, minus>>
        ELSE <<minus, minus>>

\* CircularTrajectory.__init__: self.radius ends as the radius passed in
CircularTrajectory(radius, direction, start, monitor) ==
    [kind |-> "Circular", radius |-> radius, direction |-> direction,
     start |-> start, monitor |-> monitor]

\* CircularTrajectory.update_position; speed is in degrees per tick, and the
\* angles that occur are whole numbers of quarter turns
CircularUpdatePosition(tr, current_position, time_step, speed) ==
    IF tr.direction = "clockwise"
    THEN LET a == time_step * DegToPx(speed, tr.monitor) - tr.start
         IN  <<(0 - tr.radius) * CosDeg(a), tr.radius * SinDeg(a)>>
    ELSE LET a == time_step * speed - tr.start
         IN  <<DegToPx(tr.radius * CosDeg(a), tr.monitor),
               DegToPx(tr.radius * SinDeg(a), tr.monitor)>>

\* Trajectory.update_position, dispatched on the class of the trajectory
UpdatePosition(tr, current_position, time_step, speed) ==
    CASE tr.kind = "Horizontal" -> HorizontalUpdatePosition(tr, current_position, time_step, speed)
      [] tr.kind = "Vertical"   -> VerticalUpdatePosition(tr, current_position, time_step, speed)
      [] tr.kind = "Diagonal"   -> DiagonalUpdatePosition(tr, current_position, time_step, speed)
      [] tr.kind = "Circular"   -> CircularUpdatePosition(tr, current_position, time_step, speed)

\* Trajectory.update_orientation:
\*   degrees(-1 * radians((180 / pi) * atan2(dy, dx))) = -(atan2(dy, dx) in degrees)
\* where (dx, dy) = update_position(current_position, time_step, speed) - current_position
UpdateOrientation(tr, current_position, time_step, speed) ==
    LET next_position == UpdatePosition(tr, current_position, time_step, speed)
    IN  0 - Atan2Deg(next_position[2] - current_position[2],
                     next_position[1] - current_position[1])

-----------------------------------------------------------------------------
(* trajectory.py: the constructors, statement by statement *)

\* type(x).__name__ of the values passed for distance_px, radius and start;
\* isinstance(x, float) or isinstance(x, int) holds for the first three
ArgTypes == {"int", "float", "bool", "str", "NoneType"}

NumericTypes == {"int", "float", "bool"}

\* every direction some constructor accepts, and one that none accepts
Directions == {"left", "right", "up", "down", "up_right", "up_left", "down_right",
               "down_left", "clockwise", "counterclockwise", "sideways"}

\* the list the constructor of a class tests `direction` against
ValidDirections(cls) ==
    CASE cls = "Horizontal" -> {"left", "right"}
      [] cls = "Vertical"   -> {"up", "down"}
      [] cls = "Diagonal"   -> {"up_right", "up_left", "down_right", "down_left"}
      [] cls = "Circular"   -> {"clockwise", "counterclockwise"}

MonitorKeys == {"distance", "resolution", "height"}

\* a value passed as `monitor`: its type, the keys it has when it is a dict,
\* and monitor["resolution"][1] when it has that key (0 otherwise)
MonitorArg(type, keys, resolution_y) ==
    [type |-> type, keys |-> keys, resolution_y |-> resolution_y]

\* the default monitor = None
MonitorNone == MonitorArg("NoneType", {}, 0)

MonitorArgs ==
    {MonitorNone}
      \cup { MonitorArg("dict", keys, IF "resolution" \in keys THEN r ELSE 0) :
               keys \in SUBSET MonitorKeys, r \in {0, 180} }

\* the arguments of one constructor call (distance is distance_px or radius)
ConstructorArgs(distance, direction, start, monitor) ==
    [distance |-> distance, direction |-> direction, start |-> start, monitor |-> monitor]

Stmt(kind, what) == [kind |-> kind, what |-> what]

\* the statements of a linear constructor after super().__init__(), with the
\* first assignment hoisted above the direction test
LinearInitAssigningEarly ==
    << Stmt("check", "distance"),
       Stmt("assign", "distance_px_halfed"),
       Stmt("check", "direction"),
       Stmt("assign", "direction") >>

\* Horizontal-, Vertical- and DiagonalTrajectory.__init__ after
\* super().__init__(): two tests that raise ValueError, then two assignments
LinearInit ==
    << Stmt("check", "distance"),
       Stmt("check", "direction"),
       Stmt("assign", "distance_px_halfed"),
       Stmt("assign", "direction") >>

\* CircularTrajectory.__init__ after super().__init__(): seven tests that
\* raise ValueError, then the assignments; the first assignment of
\* self.radius evaluates Utilities.px_to_deg(radius, monitor)
CircularInit ==
    << Stmt("check", "distance"),
       Stmt("check", "direction"),
       Stmt("check", "start"),
       Stmt("check", "monitor"),
       Stmt("check", "monitor.distance"),
       Stmt("check", "monitor.resolution"),
       Stmt("check", "monitor.height"),
       Stmt("assign", "monitor"),
       Stmt("assign_px_to_deg", "radius"),
       Stmt("assign", "radius"),
       Stmt("assign", "direction"),
       Stmt("assign", "start") >>

InitOf(cls) == IF cls = "Circular" THEN CircularInit ELSE LinearInit

\* whether a statement raises for the given arguments: a test when its
\* condition holds, px_to_deg when it divides by .5 * resolution[1] = 0
Raises(cls, st, args) ==
    CASE st.kind = "assign" -> FALSE
      [] st.kind = "assign_px_to_deg" -> args.monitor.resolution_y = 0
      [] st.kind = "check" ->
           CASE st.what = "distance"  -> args.distance \notin NumericTypes
             [] st.what = "direction" -> args.direction \notin ValidDirections(cls)
             [] st.what = "start"     -> args.start \notin NumericTypes
             [] st.what = "monitor"   -> args.monitor.type # "dict"
             [] st.what = "monitor.distance"   -> "distance" \notin args.monitor.keys
             [] st.what = "monitor.resolution" -> "resolution" \notin args.monitor.keys
             [] st.what = "monitor.height"     -> "height" \notin args.monitor.keys

-----------------------------------------------------------------------------
(* stimulus.py *)

\* the update parameters built by move_target and draw_instruction_target
Params(current_time, current_frame, final_update) ==
    [current_time |-> current_time, current_frame |-> current_frame,
     final_update |-> final_update]

\* MovingCircle / JumpingCircle / BackAndForthArray as built by
\* initialize_stimulus.  target_pos is target.pos (circles) or
\* target.fieldPos (array); ori, update_frequency, xys, fieldSize and back
\* are only used by the classes that have them.
NewStimulus(type, pos, speed, trajectory, update_frequency, radius) ==
    [type |-> type, pos |-> pos, target_pos |-> pos, ori |-> 0,
     speed |-> speed, trajectory |-> trajectory,
     update_frequency |-> update_frequency,
     xys |-> <<0, 0>>, fieldSize |-> <<2 * radius, 2 * radius>>, back |-> TRUE]

\* MovingCircle.update
MovingCircleUpdate(s, params) ==
    LET p == UpdatePosition(s.trajectory, s.target_pos, params.current_time, s.speed)
    IN  [s EXCEPT !.target_pos = p,
                  !.ori = UpdateOrientation(s.trajectory, p, params.current_time, s.speed)]

\* a gate that lets every call through
JumpGateEveryFrame(update_frequency, current_frame, final_update) == TRUE

\* JumpingCircle.update: the condition under which the position is recomputed
JumpGate(update_frequency, current_frame, final_update) ==
    \/ current_frame % update_frequency = 0
    \/ current_frame = 1
    \/ final_update

\* a jumping circle that moves at every call, whatever its update_frequency
JumpingCircleUpdateAlways(s, params) == MovingCircleUpdate(s, params)

\* JumpingCircle.update
JumpingCircleUpdate(s, params) ==
    IF s.update_frequency # None
          /\ JumpGate(s.update_frequency, params.current_frame, params.final_update)
    THEN MovingCircleUpdate(s, params)
    ELSE s

\* BackAndForthArray.update_xys; on a circular trajectory the offsets lie on
\* the tangent at fieldPos (tangent_angle = the angle of fieldPos + 90)
UpdateXys(s) ==
    LET fx == s.fieldSize[1]
        fy == s.fieldSize[2]
        d  == s.trajectory.direction
        tangent_angle == Atan2Deg(s.target_pos[2], s.target_pos[1]) + 90
        back  == CASE s.trajectory.kind = "Horizontal" -> <<0 - fx, 0>>
                   [] s.trajectory.kind = "Vertical"   -> <<0, 0 - fy>>
                   [] s.trajectory.kind = "Diagonal" /\ d = "up_right"   -> <<0 - fx, 0 - fy>>
                   [] s.trajectory.kind = "Diagonal" /\ d = "up_left"    -> <<fx, 0 - fy>>
                   [] s.trajectory.kind = "Diagonal" /\ d = "down_right" -> <<0 - fx, fy>>
                   [] s.trajectory.kind = "Diagonal" /\ d = "down_left"  -> <<fx, fy>>
                   [] s.trajectory.kind = "Circular" ->
                        <<(0 - fx) * CosDeg(tangent_angle), (0 - fy) * SinDeg(tangent_angle)>>
        forth == CASE s.trajectory.kind = "Horizontal" -> <<fx, 0>>
                   [] s.trajectory.kind = "Vertical"   -> <<0, fy>>
                   [] s.trajectory.kind = "Diagonal" /\ d = "up_right"   -> <<fx, fy>>
                   [] s.trajectory.kind = "Diagonal" /\ d = "up_left"    -> <<0 - fx, fy>>
                   [] s.trajectory.kind = "Diagonal" /\ d = "down_right" -> <<fx, 0 - fy>>
                   [] s.trajectory.kind = "Diagonal" /\ d = "down_left"  -> <<0 - fx, 0 - fy>>
                   [] s.trajectory.kind = "Circular" ->
                        <<fx * CosDeg(tangent_angle), (0 - fy) * SinDeg(tangent_angle)>>
    IN  IF s.back THEN [s EXCEPT !.xys = back, !.back = FALSE]
        ELSE [s EXCEPT !.xys = forth, !.back = TRUE]

\* BackAndForthArray.update
BackAndForthArrayUpdate(s, params) ==
    LET moved == [s EXCEPT !.target_pos =
                     UpdatePosition(s.trajectory, s.target_pos, params.current_time, s.speed)]
    IN  IF s.update_frequency # None
           /\ (params.current_frame % s.update_frequency = 0 \/ params.current_frame = 1)
        THEN UpdateXys(moved)
        ELSE moved

\* stimulus.update(params): the stimulus after the call
StimulusUpdate(s, params) ==
    CASE s.type = "moving_circle"        -> MovingCircleUpdate(s, params)
      [] s.type = "jumping_circle"       -> JumpingCircleUpdate(s, params)
      [] s.type = "back_and_forth_array" -> BackAndForthArrayUpdate(s, params)

\* the value stimulus.update returns, given the stimulus after the call
UpdateResult(s) ==
    IF s.type = "back_and_forth_array"
    THEN <<s.target_pos[1] - s.xys[1], s.target_pos[2] - s.xys[2]>>
    ELSE s.target_pos

-----------------------------------------------------------------------------
(* experiment_section.py: SPTrialSection.initialize_stimulus *)

\* self.req_sec for the linear trajectories: moving_distance / speed_px,
\* replaced by max_seconds when larger; kept as the fraction num / den
ReqSecUnclamped(moving_distance, speed_px, max_seconds) ==
    [num |-> moving_distance, den |-> speed_px]

ReqSec(moving_distance, speed_px, max_seconds) ==
    IF moving_distance > max_seconds * speed_px
    THEN [num |-> max_seconds, den |-> 1]
    ELSE [num |-> moving_distance, den |-> speed_px]

\* start_pos of each trajectory tag
StartPos(tag, moving_distance) ==
    LET h == moving_distance \div 2
    IN  CASE tag = "hor_right"       -> <<0 - h, 0>>
          [] tag = "hor_left"        -> <<h, 0>>
          [] tag = "ver_up"          -> <<0, 0 - h>>
          [] tag = "ver_down"        -> <<0, h>>
          [] tag = "diag_up_right"   -> <<0 - h, 0 - h>>
          [] tag = "diag_up_left"    -> <<h, 0 - h>>
          [] tag = "diag_down_right" -> <<0 - h, h>>
          [] tag = "diag_down_left"  -> <<h, h>>
          [] tag = "cir_clock"       -> <<0 - h, 0>>
          [] tag = "cir_counter"     -> <<h, 0>>

\* trajectory of each trajectory tag
TrajectoryOf(tag, moving_distance) ==
    CASE tag = "hor_right"       -> Trajectory("Horizontal", moving_distance, "right")
      [] tag = "hor_left"        -> Trajectory("Horizontal", moving_distance, "left")
      [] tag = "ver_up"          -> Trajectory("Vertical", moving_distance, "up")
      [] tag = "ver_down"        -> Trajectory("Vertical", moving_distance, "down")
      [] tag = "diag_up_right"   -> Trajectory("Diagonal", moving_distance, "up_right")
      [] tag = "diag_up_left"    -> Trajectory("Diagonal", moving_distance, "up_left")
      [] tag = "diag_down_right" -> Trajectory("Diagonal", moving_distance, "down_right")
      [] tag = "diag_down_left"  -> Trajectory("Diagonal", moving_distance, "down_left")

\* trajectory of the circular tags: radius moving_distance / 2, start 0
CircularTrajectoryOf(tag, moving_distance, monitor) ==
    CASE tag = "cir_clock"   -> CircularTrajectory(moving_distance \div 2, "clockwise", 0, monitor)
      [] tag = "cir_counter" -> CircularTrajectory(moving_distance \div 2, "counterclockwise",
                                                   0, monitor)

\* the stimulus initialize_stimulus builds for a section's data dict; for a
\* "cir" tag the speed handed to the stimulus is the angular speed
StimulusOf(data, st) ==
    LET cir             == data.target_trajectory \in CircularTags
        speed_px        == DegToPx(data.target_speed, st.monitor)
        speed           == IF cir THEN data.target_speed ELSE speed_px
        moving_distance == DegToPx(st.moving_distance, st.monitor)
        start_pos       == StartPos(data.target_trajectory, moving_distance)
        trajectory      == IF cir
                           THEN CircularTrajectoryOf(data.target_trajectory, moving_distance,
                                                     st.monitor)
                           ELSE TrajectoryOf(data.target_trajectory, moving_distance)
        jumping_frequency == Round(st.monitor.refresh_rate, st.jumps_per_second)
    IN  NewStimulus(data.target_type, start_pos, speed, trajectory,
                    IF data.target_type = "moving_circle" THEN None ELSE jumping_frequency,
                    st.radius)

\* self.req_sec for the circular tags: time_per_rotation_sec * (360 /
\* distance_per_rotation_deg) with distance_per_rotation_deg =
\* degrees(2 * pi * distance) / distance = 360, i.e. 360 / speed_ang
CircularReqSec(speed_ang) == [num |-> 360, den |-> speed_ang]

\* the req_sec initialize_stimulus computes for a section's data dict
ReqSecOf(data, st) ==
    IF data.target_trajectory \in CircularTags
    THEN CircularReqSec(data.target_speed)
    ELSE ReqSec(DegToPx(st.moving_distance, st.monitor),
                DegToPx(data.target_speed, st.monitor),
                st.max_seconds)

-----------------------------------------------------------------------------
(* eyetracker.py *)

Msg(text, trial, code) == [text |-> text, trial |-> trial, code |-> code]

\* EyeTracker.abort_trial
AbortTrial(e) ==
    [e EXCEPT !.recording = FALSE,
              !.msgs = @ \o << Msg("!V CLEAR", None, "")
                              , Msg("TRIAL_RESULT", None, "TRIAL_ERROR") >>]

\* what start_trial does once startRecording has raised RuntimeError
StartRecordingFailed(e) == AbortTrial(e)

\* EyeTracker.start_trial; ok: whether startRecording succeeds
StartTrial(e, trial_number, ok) ==
    LET e1 == [e EXCEPT !.msgs = Append(@, Msg("TRIALID", trial_number, ""))]
        e2 == IF ok THEN [e1 EXCEPT !.recording = TRUE] ELSE StartRecordingFailed(e1)
    IN  [e2 EXCEPT !.msgs = Append(@, Msg("TARGET_ONSET", trial_number, ""))]

\* EyeTracker.end_trial
EndTrial(e, trial_number) ==
    [e EXCEPT !.recording = FALSE,
              !.msgs = @ \o << Msg("TARGET_OFFSET", trial_number, "")
                              , Msg("TRIAL_RESULT", trial_number, "TRIAL_OK") >>]

\* EyeTracker.end_session up to win.close(); the process then exits
EndSession(e) ==
    IF e.connected
    THEN LET e1 == IF e.recording THEN AbortTrial(e) ELSE e
         IN  [e1 EXCEPT !.edf_open = FALSE, !.edf_received = TRUE,
                        !.connected = FALSE, !.sessions_ended = @ + 1]
    ELSE [e EXCEPT !.sessions_ended = @ + 1]

\* where control is after end_session: core.quit() / sys.exit() end the process
AfterEndSessionReturns == "loop"

AfterEndSession == "exited"

-----------------------------------------------------------------------------
(* history of calls *)

Event(op, trial, frm, final) == [op |-> op, trial |-> trial, frame |-> frm, final |-> final]

\* the indices of log holding an event of operation op
Indices(op) == { i \in 1..Len(log) : log[i].op = op }

\* the greatest element of a non-empty set of integers
Max(S) == CHOOSE m \in S : \A x \in S : x <= m

-----------------------------------------------------------------------------
(* experiment.py: settings and SPExperiment.setup_sections *)

\* a settings dict, as far as the model reads it
Settings(monitor, moving_distance, max_seconds, jumps_per_second, types, speeds, trajectories) ==
    [monitor |-> monitor, moving_distance |-> moving_distance,
     max_seconds |-> max_seconds, jumps_per_second |-> jumps_per_second,
     radius |-> 1,
     trials |-> [target_types |-> types, target_speeds |-> speeds,
                 target_trajectories |-> trajectories, repetitions |-> 1]]

\* the data dict of a section (Experiment.data.copy() with the fields
\* SPTrialSection.__init__ sets)
Data(name, trial_number, type, speed, tag) ==
    [section |-> name, trial_number |-> trial_number, target_type |-> type,
     target_speed |-> speed, target_trajectory |-> tag,
     experiment_time |-> None, trial_time |-> None,
     target_x |-> None, target_y |-> None]

\* a section name: "Tutorial", f"Trial {n}", and the name None that
\* setup_sections passes to SPTrialSection
Name(text, n) == <<text, n>>

NoName == Name("None", 0)

\* a section: its class, self.name, self.data and `dict`, the identity of
\* the dict object self.data refers to (which data.copy() call made it: 0 for
\* the tutorial's, k for the k-th trial section constructed)
Section(cls, name, dict, data) == [cls |-> cls, name |-> name, dict |-> dict, data |-> data]

\* SPTrialTutorial.__init__: the defaults, then data["target_speed"] = 2
TutorialSection ==
    Section("SPTrialTutorial", Name("Tutorial", 0), 0,
            Data(Name("Tutorial", 0), 0, "moving_circle", 2, "hor_right"))

\* a numbering that gives a section the number of its construction
TrialNumberAtConstruction(position, constructed) == constructed

\* the trial number setup_sections gives the section at a position of the
\* shuffled list (i = 1, 2, ... in list order), whenever it was constructed
TrialNumber(position, constructed) == position

\* the speed_section list of one (repetition, speed) block before the shuffle:
\* for target_trajectory in target_trajectories: for target_type in target_types
SpeedSection(st, speed) ==
    LET tys == st.trials.target_types
        trs == st.trials.target_trajectories
    IN  [ i \in 1..(Len(trs) * Len(tys)) |->
            [type |-> tys[((i - 1) % Len(tys)) + 1],
             tag  |-> trs[((i - 1) \div Len(tys)) + 1],
             speed |-> speed] ]

Shuffles(n) == { f \in [1..n -> 1..n] : \A i, j \in 1..n : f[i] = f[j] => i = j }

\* the section lists setup_sections can build: one permutation (random.shuffle)
\* per (repetition, speed) block, then name and data["trial_number"] set in
\* list order (data["section"] keeps the name None of the constructor call),
\* and the tutorial in front
SetupSections(st) ==
    LET nspeeds == Len(st.trials.target_speeds)
        nblocks == st.trials.repetitions * nspeeds
        bsize   == Len(st.trials.target_trajectories) * Len(st.trials.target_types)
        block(b) == SpeedSection(st, st.trials.target_speeds[((b - 1) % nspeeds) + 1])
    IN  { [ i \in 1..(1 + nblocks * bsize) |->
              IF i = 1 THEN TutorialSection
              ELSE LET n == i - 1
                       b == ((n - 1) \div bsize) + 1
                       k == shuffle[b][((n - 1) % bsize) + 1]
                       c == block(b)[k]
                       constructed == (b - 1) * bsize + k
                       number == TrialNumber(n, constructed)
                   IN  Section("SPTrialSection", Name("Trial", number), constructed,
                               Data(NoName, number, c.type, c.speed, c.tag)) ]
          : shuffle \in [1..nblocks -> Shuffles(bsize)] }

-----------------------------------------------------------------------------
(* the state before Experiment.run enters its section loop *)

NoStimulus == NewStimulus("none", <<0, 0>>, 0, Trajectory("none", 0, "none"), None, 0)

NoSwarm == [n |-> 0, n_active |-> 0, update_frequency |-> None, opacities |-> <<>>]

\* no Trajectory constructor is running
NoTrajectory ==
    [cls |-> "none", args |-> ConstructorArgs("int", "left", "int", MonitorNone),
     attrs |-> {}, next |-> 0, raised |-> FALSE]

\* the EyeTracker after setup_eyetracker: connected, EDF file open, not recording
TrackerReady ==
    [connected |-> TRUE, recording |-> FALSE, edf_open |-> TRUE,
     edf_received |-> FALSE, sessions_ended |-> 0, msgs |-> <<>>]

\* the monitor with the given vertical resolution
MonitorWith(res_y) == CHOOSE m \in Monitors : m.resolution[2] = res_y

\* the settings the experiment is run with
RunSettings ==
    { Settings(MonitorWith(180), 4, 4, 30, <<"jumping_circle">>, <<1>>, <<"hor_right">>),
      Settings(MonitorWith(180), 3, 4, 20, <<"jumping_circle">>, <<1>>, <<"ver_down">>),
      Settings(MonitorWith(180), 4, 2, 30, <<"moving_circle", "back_and_forth_array">>,
               <<1>>, <<"diag_up_left">>),
      Settings(MonitorWith(360), 3, 2, 30, <<"back_and_forth_array">>, <<2>>, <<"hor_left">>),
      Settings(MonitorWith(360), 3, 2, 30, <<"moving_circle">>, <<2>>, <<"hor_up">>),
      Settings(MonitorWith(180), 4, 4, 30, <<"back_and_forth_array">>, <<1>>, <<"hor_right">>) }

Init ==
    /\ settings \in RunSettings
    /\ sections \in SetupSections(settings)
    /\ cur = 1
    /\ pc = "section"
    /\ req_sec = [num |-> 0, den |-> 1]
    /\ stimulus = NoStimulus
    /\ rows = <<>>
    /\ frame = 0
    /\ target_position = <<0, 0>>
    /\ now = 0
    /\ trial_start = 0
    /\ keybuf = {}
    /\ el = TrackerReady
    /\ file = <<>>
    /\ log = <<>>
    /\ swarm = NoSwarm
    /\ traj = NoTrajectory

-----------------------------------------------------------------------------
(* experiment_section.py: the run of one section *)

D == sections[cur].data

Keys == {"quit"}

\* the params of draw_instruction_target
InstructionParams == Params(TimeOffset, 0, FALSE)

\* the params of an iteration of the while loop of move_target
FrameUpdateParams(current_time, current_frame) ==
    Params(current_time, current_frame, FALSE)

\* params of the last update without final_update set
FinalUpdateParamsNotFinal(current_time, current_frame) ==
    Params(current_time, current_frame, FALSE)

\* the params of the update after the while loop of move_target
FinalUpdateParams(current_time, current_frame) ==
    Params(current_time, current_frame, TRUE)

\* the events of self.stimulus.update(params); self.stimulus.target.draw()
UpdateAndDraw(params) ==
    << Event("update", D.trial_number, params.current_frame, params.final_update),
       Event("draw", D.trial_number, params.current_frame, params.final_update) >>

\* the events of one draw_instruction_target call
InstructionEvents == UpdateAndDraw(InstructionParams)

\* event.waitKeys(keyList = [...]) returning with the key pressed
WaitKeys(key) == Event(key, D.trial_number, 0, FALSE)

\* a check_recalibrate that calibrates whichever key was pressed
CheckRecalibrateAnyKey(key) ==
    << WaitKeys(key), Event("calibrate", D.trial_number, 0, FALSE) >>

\* the events of check_recalibrate when waitKeys returns `key`: the
\* recalibrate key is followed by el_tracker.calibrate()
CheckRecalibrate(key) ==
    IF key = "recalibrate"
    THEN << WaitKeys(key), Event("calibrate", D.trial_number, 0, FALSE) >>
    ELSE << WaitKeys(key) >>

\* the number of calibrations since the current section's run() began
Recalibrations ==
    Cardinality({ i \in Indices("calibrate") : i > Max(Indices("run")) })

\* the section's data is one that run() works with: a target_trajectory tag
\* for which initialize_stimulus binds start_pos and trajectory, and a
\* target_type for which it builds self.stimulus
Configured(data) ==
    /\ data.target_trajectory \in LinearTags \cup CircularTags
    /\ data.target_type \in TargetTypes

\* SPTrialSection.run / SPTrialTutorial.run: self.initialize_stimulus()
InitializeStimulus ==
    /\ pc = "section"
    /\ Configured(D)
    /\ req_sec' = ReqSecOf(D, settings)
    /\ stimulus' = StimulusOf(D, settings)
    /\ log' = Append(log, Event("run", D.trial_number, 0, FALSE))
    /\ pc' = IF sections[cur].cls = "SPTrialTutorial" THEN "tutorial" ELSE "fixation"
    /\ UNCHANGED <<settings, sections, cur, rows, frame, target_position, now,
                   trial_start, keybuf, el, file, swarm, traj>>

\* run() of a section whose data is not Configured: with an unknown tag
\* initialize_stimulus reads the unbound start_pos when it builds the
\* stimulus (UnboundLocalError); with an unknown target_type alone it builds
\* no stimulus and get_instruction_settings, called first by
\* fixation_instruction, reads the unbound movement_text.  Nothing catches
\* the error: it leaves run() and Experiment.run.
RunRaises ==
    /\ pc = "section"
    /\ ~Configured(D)
    /\ log' = log \o << Event("run", D.trial_number, 0, FALSE),
                        Event("error", D.trial_number, 0, FALSE) >>
    /\ pc' = "raised"
    /\ UNCHANGED <<settings, sections, cur, req_sec, stimulus, rows, frame,
                   target_position, now, trial_start, keybuf, el, file, swarm, traj>>

\* fixation_instruction, one pass of the loop in which check_recalibrate gets
\* the recalibrate key: draw_arrow_and_target, el_tracker.calibrate()
FixationRecalibrate ==
    /\ pc = "fixation"
    /\ Recalibrations < MaxRecalibrations
    /\ stimulus' = StimulusUpdate(stimulus, InstructionParams)
    /\ log' = log \o InstructionEvents \o CheckRecalibrate("recalibrate")
    /\ now' = now + 1
    /\ keybuf' = {}
    /\ UNCHANGED <<settings, sections, cur, pc, req_sec, rows, frame,
                   target_position, trial_start, el, file, swarm, traj>>

\* fixation_instruction, the pass in which check_recalibrate gets the continue
\* key, then draw_instruction_target, flip and start_trial (a second continue)
FixationContinue ==
    /\ pc = "fixation"
    /\ stimulus' = StimulusUpdate(StimulusUpdate(stimulus, InstructionParams),
                                  InstructionParams)
    /\ log' = log \o InstructionEvents \o CheckRecalibrate("continue")
                  \o InstructionEvents \o << WaitKeys("continue") >>
    /\ now' = now + 1
    /\ keybuf' = {}
    /\ pc' = "move_target"
    /\ UNCHANGED <<settings, sections, cur, req_sec, rows, frame,
                   target_position, trial_start, el, file, swarm, traj>>

\* SPTrialTutorial.run: tutorial_step_1 .. tutorial_step_4, each with one
\* draw_instruction_target and one wait for the continue key; step 3 ends
\* with remove_direction_arrow, which draws the target once more after its
\* wait, step 4 with start_trial
TutorialSteps1To4 ==
    /\ pc = "tutorial"
    /\ stimulus' = StimulusUpdate(StimulusUpdate(StimulusUpdate(StimulusUpdate(
                       stimulus, InstructionParams), InstructionParams),
                       InstructionParams), InstructionParams)
    /\ log' = log \o InstructionEvents \o << WaitKeys("continue") >>
                  \o InstructionEvents \o << WaitKeys("continue") >>
                  \o InstructionEvents \o << WaitKeys("continue") >>
                  \o << Event("draw", D.trial_number, 0, FALSE) >>
                  \o InstructionEvents \o << WaitKeys("continue") >>
    /\ now' = now + 1
    /\ keybuf' = {}
    /\ pc' = "move_target"
    /\ UNCHANGED <<settings, sections, cur, req_sec, rows, frame,
                   target_position, trial_start, el, file, swarm, traj>>

\* move_target up to the while loop: rows = [], frame = 0,
\* el_tracker.start_trial(trial_number), trial_clock = core.Clock()
MoveTargetStart ==
    /\ pc = "move_target"
    /\ \E ok \in BOOLEAN : el' = StartTrial(el, D.trial_number, ok)
    /\ rows' = <<>>
    /\ frame' = 0
    /\ log' = Append(log, Event("start_trial", D.trial_number, 0, FALSE))
    /\ now' = now + 1
    /\ trial_start' = now'
    /\ pc' = "loop"
    /\ UNCHANGED <<settings, sections, cur, req_sec, stimulus, target_position,
                   keybuf, file, swarm, traj>>

\* trial_clock.getTime()
TrialTime == now - trial_start

\* trial_clock.getTime() < self.req_sec
LoopCondition == TrialTime * req_sec.den < req_sec.num

\* a row buffer that takes the new row in front
PrependRow(rws, data) == << data >> \o rws

\* a row buffer whose rows are all the data dict itself (rows.append(self.data)):
\* every row shows the values the dict holds now
AppendRowAliased(rws, data) == [i \in 1..(Len(rws) + 1) |-> data]

\* rows.append([value for value in self.data.values()])
AppendRow(rws, data) == Append(rws, data)

\* one iteration of the while loop of move_target up to and including
\* event.getKeys(), which fetches and empties the key buffer; the flip blocks
\* for d ticks.  A key pressed at any point of the iteration before getKeys
\* returns is in keybuf when the action is taken.
LoopIteration ==
    /\ pc = "loop"
    /\ LoopCondition
    /\ \E d \in 1..MaxFrameTicks :
         LET params == FrameUpdateParams(TrialTime + TimeOffset, frame + 1)
             s      == StimulusUpdate(stimulus, params)
             pos    == UpdateResult(s)
             data   == [D EXCEPT !.experiment_time = now + d,
                                 !.trial_time = (now + d) - trial_start,
                                 !.target_x = pos[1],
                                 !.target_y = pos[2]]
             events == UpdateAndDraw(params)
         IN  /\ frame' = frame + 1
             /\ stimulus' = s
             /\ target_position' = pos
             /\ now' = now + d
             /\ sections' = [sections EXCEPT ![cur].data = data]
             /\ rows' = AppendRow(rows, data)
             /\ keybuf' = {}
             /\ IF "quit" \in keybuf
                THEN /\ el' = EndSession(el)
                     /\ log' = log \o events
                                   \o << Event("end_session", D.trial_number, frame + 1, FALSE) >>
                     /\ pc' = AfterEndSession
                ELSE /\ el' = el
                     /\ log' = log \o events
                     /\ pc' = "clear"
    /\ UNCHANGED <<settings, cur, req_sec, trial_start, file, swarm, traj>>

\* the end of the iteration: event.clearEvents() empties the key buffer, a
\* key pressed since getKeys returned included
ClearEvents ==
    /\ pc = "clear"
    /\ keybuf' = {}
    /\ pc' = "loop"
    /\ UNCHANGED <<settings, sections, cur, req_sec, stimulus, rows, frame,
                   target_position, now, trial_start, el, file, log, swarm, traj>>

\* move_target after the loop: the final update, draw, flip, wait, end_trial,
\* return rows
LoopExit ==
    /\ pc = "loop"
    /\ ~LoopCondition
    /\ LET params == FinalUpdateParams(TrialTime + TimeOffset, frame)
           s      == StimulusUpdate(stimulus, params)
       IN  /\ stimulus' = s
           /\ target_position' = UpdateResult(s)
           /\ log' = log \o UpdateAndDraw(params)
                         \o << Event("end_trial", D.trial_number, frame, FALSE) >>
    /\ now' = now + 1
    /\ el' = EndTrial(el, D.trial_number)
    /\ pc' = IF sections[cur].cls = "SPTrialTutorial" THEN "tutorial_step_6" ELSE "returned"
    /\ UNCHANGED <<settings, sections, cur, req_sec, rows, frame, trial_start,
                   keybuf, file, swarm, traj>>

\* SPTrialTutorial.run: tutorial_step_6, then return rows
TutorialStep6 ==
    /\ pc = "tutorial_step_6"
    /\ stimulus' = StimulusUpdate(stimulus, InstructionParams)
    /\ log' = log \o InstructionEvents \o << WaitKeys("continue") >>
    /\ now' = now + 1
    /\ keybuf' = {}
    /\ pc' = "returned"
    /\ UNCHANGED <<settings, sections, cur, req_sec, rows, frame,
                   target_position, trial_start, el, file, swarm, traj>>

\* a key is pressed while the motion phase runs
KeyPress ==
    /\ pc \in {"move_target", "loop", "clear"}
    /\ \E k \in Keys \ keybuf : keybuf' = keybuf \cup {k}
    /\ UNCHANGED <<settings, sections, cur, pc, req_sec, stimulus, rows, frame,
                   target_position, now, trial_start, el, file, log, swarm, traj>>

-----------------------------------------------------------------------------
(* experiment.py: Experiment.run *)

\* a data file that takes every list of rows twice
WriteRowToDataFileTwice(f, row) == f \o row \o row

\* Experiment.write_row_to_data_file: csv.writer(f).writerows(row) on the
\* file opened for appending
WriteRowToDataFile(f, row) == f \o row

\* the body of the section loop after section.run() has returned a list:
\* write_row_to_data_file(rows), then the next section or finalize_experiment
WriteRows ==
    /\ pc = "returned"
    /\ file' = WriteRowToDataFile(file, rows)
    /\ log' = Append(log, Event("write", D.trial_number, Len(rows), FALSE))
    /\ cur' = cur + 1
    /\ pc' = IF cur + 1 > Len(sections) THEN "finalize" ELSE "section"
    /\ UNCHANGED <<settings, sections, req_sec, stimulus, rows, frame,
                   target_position, now, trial_start, keybuf, el, swarm, traj>>

\* SPExperiment.finalize_experiment: el_tracker.end_session()
FinalizeExperiment ==
    /\ pc = "finalize"
    /\ el' = EndSession(el)
    /\ log' = Append(log, Event("end_session", None, 0, FALSE))
    /\ pc' = AfterEndSession
    /\ UNCHANGED <<settings, sections, cur, req_sec, stimulus, rows, frame,
                   target_position, now, trial_start, keybuf, file, swarm, traj>>

Next ==
    \/ InitializeStimulus
    \/ RunRaises
    \/ FixationRecalibrate
    \/ FixationContinue
    \/ TutorialSteps1To4
    \/ MoveTargetStart
    \/ LoopIteration
    \/ ClearEvents
    \/ LoopExit
    \/ TutorialStep6
    \/ KeyPress
    \/ WriteRows
    \/ FinalizeExperiment

Spec == Init /\ [][Next]_vars

-----------------------------------------------------------------------------
(* Properties of the trial loop, checked under Spec *)

\* the trial numbers whose end_trial has been called
CompletedTrials == { log[i].trial : i \in Indices("end_trial") }

\* the index of the (only) event of operation op of trial n
IndexOf(op, n) == CHOOSE i \in Indices(op) : log[i].trial = n

\* the update events of trial n among log[lo..hi], in order
TrialUpdates(n, lo, hi) ==
    SelectSeq(SubSeq(log, lo, hi), LAMBDA e : e.op = "update" /\ e.trial = n)

\* move_target has returned its rows to run()
MoveTargetReturned == pc \in {"returned", "tutorial_step_6"}

\* the last event logged
LastEvent == log[Len(log)]

\* C1: with update_frequency = k, a JumpingCircle keeps its position at every
\* update call of the motion phase whose frame index is neither 1 nor a
\* multiple of k and which is not the final update; the call then returns
\* the position held before it.
C1_JumpOnlyAtGate ==
    [][ (pc = "loop" /\ stimulus.type = "jumping_circle" /\ Len(log') > Len(log))
        => LET e == log'[Len(log) + 1]
               k == stimulus.update_frequency
           IN  /\ e.op = "update"
               /\ (e.frame # 1 /\ e.frame % k # 0 /\ ~e.final)
                    => /\ stimulus'.target_pos = stimulus.target_pos
                       /\ target_position' = stimulus.target_pos ]_vars

\* C1 witness: a jumping circle with k = 2 that moved at frames 1 and 2 and
\* held its position through frame 3
C1_Witness ==
    /\ pc = "loop"
    /\ stimulus.type = "jumping_circle"
    /\ stimulus.update_frequency = 2
    /\ frame = 3
    /\ Len(rows) = 3
    /\ <<rows[1].target_x, rows[1].target_y>> # <<rows[2].target_x, rows[2].target_y>>
    /\ <<rows[3].target_x, rows[3].target_y>> = <<rows[2].target_x, rows[2].target_y>>
    /\ rows[3].trial_time > rows[2].trial_time

\* the order of the calls of a completed trial n: start_trial, the non-final
\* updates with frame index 1, 2, ..., one final update, end_trial
CallOrder(n) ==
    LET a == IndexOf("start_trial", n)
        b == IndexOf("end_trial", n)
        u == TrialUpdates(n, a + 1, b - 1)
    IN  /\ Cardinality({ i \in Indices("start_trial") : log[i].trial = n }) = 1
        /\ Cardinality({ i \in Indices("end_trial") : log[i].trial = n }) = 1
        /\ a < b
        /\ Len(u) >= 1
        /\ \A i \in 1..(Len(u) - 1) : u[i].frame = i /\ ~u[i].final
        /\ u[Len(u)].final

\* C2, as stated: the call order, and no update of the trial before
\* start_trial or after end_trial.
C2_Original ==
    \A n \in CompletedTrials :
        LET a == IndexOf("start_trial", n)
            b == IndexOf("end_trial", n)
        IN  /\ CallOrder(n)
            /\ \A i \in 1..Len(log) :
                 (log[i].op = "update" /\ log[i].trial = n)
                    => a < i /\ i < b

\* C2, amended: the call order, and no update of the motion phase (frame
\* index >= 1, or final) before start_trial or after end_trial; the
\* placement updates of draw_instruction_target (frame index 0) lie outside.
C2_CallOrder ==
    \A n \in CompletedTrials :
        LET a == IndexOf("start_trial", n)
            b == IndexOf("end_trial", n)
        IN  /\ CallOrder(n)
            /\ \A i \in 1..Len(log) :
                 (log[i].op = "update" /\ log[i].trial = n
                    /\ (log[i].frame >= 1 \/ log[i].final))
                    => a < i /\ i < b

\* C2 witness: a trial completed after three frames
C2_Witness ==
    /\ pc = "returned"
    /\ frame = 3
    /\ D.trial_number \in CompletedTrials
    /\ D.trial_number >= 1

\* the number of target draws of the motion phase of the current trial
MotionDraws ==
    Cardinality({ i \in Indices("draw") :
                    /\ log[i].trial = D.trial_number
                    /\ i > IndexOf("start_trial", D.trial_number)
                    /\ i < IndexOf("end_trial", D.trial_number) })

\* C3: the rows move_target returns hold one row per frame drawn in the
\* motion phase, the last row carrying the position the final update
\* returned.
C3_FinalFrameLogged ==
    MoveTargetReturned
        => /\ Len(rows) = MotionDraws
           /\ <<rows[Len(rows)].target_x, rows[Len(rows)].target_y>> = target_position

\* den * (the position of the stimulus' trajectory at time num / den)
PositionAtFraction(s, num, den) ==
    UpdatePosition([s.trajectory EXCEPT !.distance_px_halfed = @ * den],
                   <<s.target_pos[1] * den, s.target_pos[2] * den>>, num, s.speed)

\* C4: after the final update of a completed trial a JumpingCircle is at the
\* position of its trajectory at req_sec (+ time_offset).
C4_TerminalPosition ==
    (MoveTargetReturned /\ LastEvent.op = "end_trial"
       /\ stimulus.type = "jumping_circle")
        => <<stimulus.target_pos[1] * req_sec.den, stimulus.target_pos[2] * req_sec.den>>
             = PositionAtFraction(stimulus, req_sec.num + TimeOffset * req_sec.den,
                                  req_sec.den)

\* the quit key has been observed in the frame loop
Cancelled == \E i \in Indices("end_session") : log[i].frame >= 1

\* C5: once the quit key is observed at frame f, the rows hold exactly f
\* rows, end_session has been called exactly once and is the last call made
\* (no update, draw, write or section start follows), and nothing happens
\* any more.
C5_CancelStops ==
    /\ [](Cancelled
            => /\ pc = "exited"
               /\ Cardinality(Indices("end_session")) = 1
               /\ el.sessions_ended = 1
               /\ LastEvent.op = "end_session"
               /\ LastEvent.trial = D.trial_number
               /\ LastEvent.frame = frame
               /\ Len(rows) = frame
               /\ Max(Indices("run")) = Max({ i \in Indices("run") : log[i].trial = D.trial_number }))
    /\ [][pc = "exited" => UNCHANGED vars]_vars

\* C5 witness: cancelled at frame 2 of the tutorial, with sections left
C5_Witness ==
    /\ Cancelled
    /\ frame = 2
    /\ cur < Len(sections)
    /\ pc = "exited"

\* startRecording failed in start_trial(n): TRIALID n is followed by the
\* messages of abort_trial
StartRecordingFailedFor(n) ==
    \E i \in 1..(Len(el.msgs) - 2) :
        /\ el.msgs[i] = Msg("TRIALID", n, "")
        /\ el.msgs[i + 2] = Msg("TRIAL_RESULT", None, "TRIAL_ERROR")

\* C6: a trial whose startRecording failed is marked TRIAL_ERROR and is not
\* carried on as a normal trial: no frame of it is shown, it gets no
\* TARGET_ONSET and no TRIAL_OK result, and no row of it reaches the file.
C6_FailedTrialAborted ==
    \A n \in { log[i].trial : i \in Indices("start_trial") } :
        StartRecordingFailedFor(n)
            => /\ \A i \in Indices("update") :
                    log[i].trial = n => log[i].frame = 0 /\ ~log[i].final
               /\ \A i \in 1..Len(el.msgs) :
                    el.msgs[i].trial = n
                        => el.msgs[i].text \notin {"TARGET_ONSET", "TARGET_OFFSET", "TRIAL_RESULT"}
               /\ \A i \in 1..Len(file) : file[i].trial_number # n

\* the rows of trial n in the data file, in file order
FileRowsOf(n) == SelectSeq(file, LAMBDA r : r.trial_number = n)

\* consecutive rows of a sequence have non-decreasing trial_time and
\* experiment_time
TimesNonDecreasing(rws) ==
    \A i \in 1..(Len(rws) - 1) :
        /\ rws[i].trial_time <= rws[i + 1].trial_time
        /\ rws[i].experiment_time <= rws[i + 1].experiment_time

\* C11: within a trial the rows are appended one per loop iteration with
\* non-decreasing trial_time and experiment_time; across consecutive trials
\* experiment_time is non-decreasing and trial_time restarts: the first row
\* of a trial reads a clock that was started after the last row of the
\* trial before it.
C11_RowTimesOrdered ==
    /\ pc \in {"loop", "clear", "returned", "tutorial_step_6"}
         => /\ Len(rows) = frame
            /\ \A i \in 1..Len(rows) : rows[i].trial_number = D.trial_number
    /\ TimesNonDecreasing(rows)
    /\ \A i \in 1..Len(rows) :
         /\ rows[i].trial_time >= 0
         /\ rows[i].trial_time = rows[i].experiment_time - trial_start
    /\ \A i \in 1..(Len(file) - 1) :
         /\ file[i].experiment_time <= file[i + 1].experiment_time
         /\ file[i].trial_number = file[i + 1].trial_number
              => file[i].trial_time <= file[i + 1].trial_time
         /\ file[i].trial_number # file[i + 1].trial_number
              => file[i + 1].trial_time
                   <= file[i + 1].experiment_time - file[i].experiment_time

\* C11 witness: the file holds the rows of two trials, the second with two
\* rows or more and a first trial_time below the last one of the first
C11_Witness ==
    /\ pc = "finalize"
    /\ \E i \in 1..(Len(file) - 2) :
         /\ file[i].trial_number = 0
         /\ file[i + 1].trial_number = 1
         /\ file[i + 2].trial_number = 1
         /\ file[i + 1].trial_time < file[i].trial_time
         /\ file[i + 1].trial_time < file[i + 2].trial_time

\* C12: the rows a section returns are appended to the data file exactly
\* once and in the order recorded, after the trial's end_trial and before the
\* next section starts; move_target writes nothing.
C12_RowsWrittenOnce ==
    /\ \A i \in Indices("write") :
         /\ \E j \in Indices("end_trial") : j < i /\ log[j].trial = log[i].trial
         /\ \A j \in Indices("write") : log[j].trial = log[i].trial => j = i
         /\ Len(FileRowsOf(log[i].trial)) = log[i].frame
    /\ \A j \in Indices("run") :
         \A n \in 0..(log[j].trial - 1) :
             \E i \in Indices("write") : i < j /\ log[i].trial = n
    /\ (pc \in {"section", "finalize"} /\ cur > 1)
         => /\ LastEvent.op = "write"
            /\ Len(file) >= Len(rows)
            /\ SubSeq(file, Len(file) - Len(rows) + 1, Len(file)) = rows
    /\ pc \in {"move_target", "loop", "clear", "tutorial_step_6", "returned"}
         => FileRowsOf(D.trial_number) = <<>>

\* C12 witness: the second section has just been written, after a first
\* section that returned rows too
C12_Witness ==
    /\ pc \in {"section", "finalize"}
    /\ cur = 3
    /\ Len(rows) >= 2
    /\ Len(file) > Len(rows)

\* C17: no quit key press is pending when event.clearEvents() empties the
\* key buffer at the end of an iteration of the frame loop; every press that
\* arrives while the loop runs is seen by event.getKeys().
C17_NoPressDropped ==
    [][ (pc = "clear" /\ pc' = "loop") => "quit" \notin keybuf ]_vars

\* C18: when the process has exited after a cancel in the motion phase, the
\* tracking link is closed and the rows recorded for the trial in progress
\* are in the data file.
C18_RowsFlushedOnCancel ==
    (Cancelled /\ pc = "exited")
        => /\ ~el.connected
           /\ FileRowsOf(D.trial_number) = rows

\* C19: a configuration error comes before the motion phase of any trial:
\* no start_trial call and no data row precedes it.
C19_ErrorBeforeAnyTrial ==
    pc = "raised" => (Indices("start_trial") = {} /\ file = <<>>)

\* C21: in the motion phase a BackAndForthArray with update_frequency = k
\* flips its toggle, and switches its element offset, at exactly the update
\* calls where the periodic gate fires: frame index 1, a multiple of k, or
\* final_update.
C21_ToggleAtGate ==
    [][ (pc = "loop" /\ stimulus.type = "back_and_forth_array" /\ Len(log') > Len(log))
        => LET e == log'[Len(log) + 1]
               k == stimulus.update_frequency
           IN  /\ e.op = "update"
               /\ JumpGate(k, e.frame, e.final)
                    <=> (stimulus'.back # stimulus.back /\ stimulus'.xys # stimulus.xys) ]_vars

\* the index of the last start_trial or end_trial event before index i (0 if
\* there is none)
LastTrialMark(i) ==
    LET marks == { j \in 1..(i - 1) : log[j].op \in {"start_trial", "end_trial"} }
    IN  IF marks = {} THEN 0 ELSE Max(marks)

\* log[i], or an event of no operation when i is not an index of log
EventAt(i) == IF i \in 1..Len(log) THEN log[i] ELSE Event("none", None, 0, FALSE)

\* log[i] and log[i + 1] are the update and draw of a draw_instruction_target
InstructionDrawAt(i) ==
    /\ EventAt(i).op = "update" /\ EventAt(i).frame = 0 /\ ~EventAt(i).final
    /\ EventAt(i + 1).op = "draw" /\ EventAt(i + 1).frame = 0

C23_RowsAreSnapshots ==
    [][ /\ Len(file') >= Len(file)
        /\ \A i \in 1..Len(file) : file'[i] = file[i]
        /\ \/ /\ Len(rows') >= Len(rows)
              /\ \A i \in 1..Len(rows) : rows'[i] = rows[i]
           \/ /\ rows' = <<>>
              /\ Len(file) >= Len(rows)
              /\ SubSeq(file, Len(file) - Len(rows) + 1, Len(file)) = rows
        /\ Len(rows') > Len(rows)
             => /\ Len(rows') = Len(rows) + 1
                /\ rows'[Len(rows')] = sections'[cur].data ]_vars

\* C23 witness: in a trial after the first section, two rows have been
\* appended; the data dict has been overwritten since the first
C23_Witness ==
    /\ pc = "clear"
    /\ cur >= 2
    /\ file # <<>>
    /\ Len(rows) = 2
    /\ rows[2] = D
    /\ rows[1].trial_time # D.trial_time
    /\ rows[1].target_x # D.target_x

\* C24: every row of a MovingCircle trial holds the position of the
\* trajectory at the row's trial_time (+ time_offset).
C24_PositionAtLoggedTime ==
    (pc \in {"loop", "clear"} /\ stimulus.type = "moving_circle")
        => \A i \in 1..Len(rows) :
             <<rows[i].target_x, rows[i].target_y>>
               = UpdatePosition(stimulus.trajectory, stimulus.target_pos,
                                rows[i].trial_time + TimeOffset, stimulus.speed)

\* the indices of el.msgs holding a TRIALID message
TrialIds == { i \in 1..Len(el.msgs) : el.msgs[i].text = "TRIALID" }

\* the messages of the trial whose TRIALID is el.msgs[a]: those up to the
\* next TRIALID
TrialMsgs(a) ==
    LET later == { i \in TrialIds : i > a }
        b     == IF later = {} THEN Len(el.msgs) + 1
                 ELSE CHOOSE i \in later : \A j \in later : i <= j
    IN  SubSeq(el.msgs, a, b - 1)

\* the number of TRIAL_RESULT messages among msgs
TrialResults(msgs) == Len(SelectSeq(msgs, LAMBDA m : m.text = "TRIAL_RESULT"))

\* the tracker is not recording between trials, and a trial has at most one
\* TRIAL_RESULT message, exactly one once it is over
ProtocolWellFormed ==
    /\ pc \in {"section", "fixation", "tutorial", "move_target", "returned", "finalize"}
         => ~el.recording
    /\ \A a \in TrialIds :
         /\ TrialResults(TrialMsgs(a)) <= 1
         /\ (~el.recording /\ pc \notin {"loop", "clear"})
              => TrialResults(TrialMsgs(a)) = 1

\* C25: the tracker protocol is well formed at every step, and end_trial
\* (which calls stopRecording) runs only while a recording is active.
C25_TrackerProtocol ==
    [][ /\ ProtocolWellFormed'
        /\ (Len(log') > Len(log) /\ log'[Len(log')].op = "end_trial") => el.recording ]_vars

\* C26: when the motion phase is about to start, the stimulus is in the
\* state a single draw_instruction_target call leaves it in, however many
\* times the instruction was drawn.
C26_InstructionDrawIdempotent ==
    pc = "move_target"
        => stimulus = StimulusUpdate(StimulusOf(D, settings), InstructionParams)

-----------------------------------------------------------------------------
(* A stimulus on its own: initialize_stimulus for any section, then update
   calls with any parameters.  `now` holds the current_time and `frame` the
   current_frame of the last call, `log` the event of the last call. *)

StimSettings ==
    { Settings(m, d, x, 30, <<ty>>, <<sp>>, <<tag>>) :
        m \in Monitors, d \in {2, 3}, x \in {1, 2},
        ty \in TargetTypes, sp \in {1, 2, 3}, tag \in LinearTags }
    \cup
    { Settings(m, d, 1, 30, <<ty>>, <<90>>, <<tag>>) :
        m \in Monitors, d \in {2, 3}, ty \in TargetTypes, tag \in CircularTags }

InitStim ==
    /\ settings \in StimSettings
    /\ sections = << Section("SPTrialSection", Name("Trial", 1), 1,
                              Data(NoName, 1,
                                   settings.trials.target_types[1],
                                   settings.trials.target_speeds[1],
                                   settings.trials.target_trajectories[1])) >>
    /\ cur = 1
    /\ pc = "stim"
    /\ req_sec = [num |-> 0, den |-> 1]
    /\ stimulus = NoStimulus
    /\ rows = <<>>
    /\ frame = 0
    /\ target_position = <<0, 0>>
    /\ now = 0
    /\ trial_start = 0
    /\ keybuf = {}
    /\ el = TrackerReady
    /\ file = <<>>
    /\ log = <<>>
    /\ swarm = NoSwarm
    /\ traj = NoTrajectory

\* initialize_stimulus
StimInitialize ==
    /\ pc = "stim"
    /\ req_sec' = ReqSecOf(D, settings)
    /\ stimulus' = StimulusOf(D, settings)
    /\ pc' = "stim_ready"
    /\ UNCHANGED <<settings, sections, cur, rows, frame, target_position, now,
                   trial_start, keybuf, el, file, log, swarm, traj>>

\* JumpingCircle(...) / BackAndForthArray(...) built without an
\* update_frequency argument, i.e. with the default None; position, speed and
\* trajectory as initialize_stimulus passes them
StimConstruct ==
    /\ pc = "stim"
    /\ D.target_type \in {"jumping_circle", "back_and_forth_array"}
    /\ stimulus' = [StimulusOf(D, settings) EXCEPT !.update_frequency = None]
    /\ pc' = "stim_built"
    /\ UNCHANGED <<settings, sections, cur, req_sec, rows, frame, target_position,
                   now, trial_start, keybuf, el, file, log, swarm, traj>>

\* target_position = stimulus.update(params)
StimUpdate ==
    /\ pc \in {"stim_ready", "stim_built"}
    /\ \E t \in 0..MaxTime, f \in 0..MaxTime, final \in BOOLEAN :
         LET params == Params(t, f, final)
             s      == StimulusUpdate(stimulus, params)
         IN  /\ stimulus' = s
             /\ target_position' = UpdateResult(s)
             /\ now' = t
             /\ frame' = f
             /\ log' = << Event("update", D.trial_number, f, final) >>
    /\ UNCHANGED <<settings, sections, cur, pc, req_sec, rows, trial_start,
                   keybuf, el, file, swarm, traj>>

NextStim == StimInitialize \/ StimConstruct \/ StimUpdate

SpecStim == InitStim /\ [][NextStim]_vars

-----------------------------------------------------------------------------
(* Properties of the stimuli and trajectories, checked under SpecStim *)

\* the direction of motion of a trajectory tag: the sign of the motion in x
\* and in y (up is +y)
DirectionOf(tag) ==
    CASE tag = "hor_right"       -> <<1, 0>>
      [] tag = "hor_left"        -> <<0 - 1, 0>>
      [] tag = "ver_up"          -> <<0, 1>>
      [] tag = "ver_down"        -> <<0, 0 - 1>>
      [] tag = "diag_up_right"   -> <<1, 1>>
      [] tag = "diag_up_left"    -> <<0 - 1, 1>>
      [] tag = "diag_down_right" -> <<1, 0 - 1>>
      [] tag = "diag_down_left"  -> <<0 - 1, 0 - 1>>

\* the bearing of position(t + 1) - position(t) of the stimulus' trajectory
BearingAt(s, t) ==
    LET p == UpdatePosition(s.trajectory, s.target_pos, t, s.speed)
        q == UpdatePosition(s.trajectory, s.target_pos, t + 1, s.speed)
    IN  Atan2Deg(q[2] - p[2], q[1] - p[1])

\* two angles in degrees that differ by a multiple of 360
SameAngle(a, b) == (a - b) % 360 = 0

\* C8: after MovingCircle.update at elapsed time t the orientation of the
\* target is the bearing of the direction of motion at t (counted either
\* counterclockwise, as atan2 does, or clockwise, as the display does).
C8_OrientationIsBearing ==
    (pc = "stim_ready" /\ stimulus.type = "moving_circle" /\ log # <<>>
       /\ D.target_trajectory \in LinearTags)
        => \/ SameAngle(stimulus.ori, BearingAt(stimulus, now))
           \/ SameAngle(stimulus.ori, 0 - BearingAt(stimulus, now))

\* C9: for each linear tag as configured by initialize_stimulus,
\* update_position at t = 0 returns start_pos, and at time t each moving
\* coordinate is speed * t away from its start value in the direction of
\* motion while a coordinate that does not move keeps its current value.
C9_LinearPosition ==
    (pc = "stim_ready" /\ D.target_trajectory \in LinearTags)
        => LET tr    == stimulus.trajectory
               at(t) == UpdatePosition(tr, stimulus.target_pos, t, stimulus.speed)
               dir   == DirectionOf(D.target_trajectory)
           IN  /\ at(0) = stimulus.pos
               /\ \A t \in 0..MaxTime : \A i \in 1..2 :
                    IF dir[i] # 0
                    THEN at(t)[i] - stimulus.pos[i] = dir[i] * stimulus.speed * t
                    ELSE at(t)[i] = stimulus.target_pos[i]

\* C9 witness: a circle on the down-left diagonal, updated at t = 2 and away
\* from its start position
C9_Witness ==
    /\ pc = "stim_ready"
    /\ D.target_trajectory = "diag_down_left"
    /\ stimulus.type = "moving_circle"
    /\ log # <<>>
    /\ now = 2
    /\ stimulus.target_pos[1] < stimulus.pos[1]
    /\ stimulus.target_pos[2] < stimulus.pos[2]

\* C10: req_sec = min(moving_distance_px / speed_px, max_seconds); 800 px at
\* 100 px/s give 8 s, and 5 s with max_seconds = 5.
C10_ReqSecClamped ==
    /\ (pc = "stim_ready" /\ D.target_trajectory \in LinearTags)
        => LET md == DegToPx(settings.moving_distance, settings.monitor)
               sp == DegToPx(D.target_speed, settings.monitor)
               mx == settings.max_seconds
           IN  /\ req_sec.den > 0
               /\ md <= mx * sp => req_sec.num * sp = md * req_sec.den
               /\ md > mx * sp => req_sec.num = mx * req_sec.den
    /\ LET r == ReqSec(800, 100, 10) IN r.num = 8 * r.den
    /\ LET r == ReqSec(800, 100, 5) IN r.num = 5 * r.den

\* C10 witness: a section whose quotient exceeds max_seconds
C10_Witness ==
    /\ pc = "stim_ready"
    /\ DegToPx(settings.moving_distance, settings.monitor)
         > settings.max_seconds * DegToPx(D.target_speed, settings.monitor)
    /\ req_sec = [num |-> settings.max_seconds, den |-> 1]

\* C16: for both circular tags as configured by initialize_stimulus,
\* update_position at t = 0 returns the configured start offset,
\* (-moving_distance/2, 0) for cir_clock and (moving_distance/2, 0) for
\* cir_counter.
C16_CircularStart ==
    (pc = "stim_ready" /\ D.target_trajectory \in CircularTags)
        => LET h == DegToPx(settings.moving_distance, settings.monitor) \div 2
               p == UpdatePosition(stimulus.trajectory, stimulus.target_pos, 0, stimulus.speed)
           IN  /\ stimulus.pos = p
               /\ D.target_trajectory = "cir_clock" => p = <<0 - h, 0>>
               /\ D.target_trajectory = "cir_counter" => p = <<h, 0>>

\* the offset update_xys sets when the toggle is on back, and when it is not
BackOffset(s) == UpdateXys([s EXCEPT !.back = TRUE]).xys

ForthOffset(s) == UpdateXys([s EXCEPT !.back = FALSE]).xys

\* vector v lies on the line of motion of the array: parallel to the
\* direction of a linear tag, perpendicular to the radius (fieldPos) on a
\* circular one
OnLineOfMotion(s, tag, v) ==
    IF tag \in CircularTags
    THEN v[1] * s.target_pos[1] + v[2] * s.target_pos[2] = 0
    ELSE v[1] * DirectionOf(tag)[2] - v[2] * DirectionOf(tag)[1] = 0

\* C27: at every field position of a BackAndForthArray the forth offset is
\* the negation of the back offset, both lie on the line of motion, and they
\* differ.
C27_OffsetsOpposite ==
    (pc \in {"stim_ready", "stim_built"} /\ stimulus.type = "back_and_forth_array")
        => LET back  == BackOffset(stimulus)
               forth == ForthOffset(stimulus)
           IN  /\ forth = <<0 - back[1], 0 - back[2]>>
               /\ OnLineOfMotion(stimulus, D.target_trajectory, back)
               /\ OnLineOfMotion(stimulus, D.target_trajectory, forth)
               /\ back # forth

\* C28: the position BackAndForthArray.update returns is the position of the
\* rendered element: the field centre plus the element offset.
C28_ReturnedIsRendered ==
    (pc \in {"stim_ready", "stim_built"} /\ stimulus.type = "back_and_forth_array"
       /\ log # <<>>)
        => target_position = <<stimulus.target_pos[1] + stimulus.xys[1],
                               stimulus.target_pos[2] + stimulus.xys[2]>>

-----------------------------------------------------------------------------
(* stimulus.py: SwarmStimulus on its own *)

\* the opacities after `self.target.opacities = 0` and then, for each i in
\* range(n_active), opacities[choice(range(n))] = 1; draws[i] is the i-th
\* choice (slots are numbered from 1)
Resample(n, draws) ==
    [ j \in 1..n |-> IF \E i \in DOMAIN draws : draws[i] = j THEN 1 ELSE 0 ]

\* the outcomes of n_active calls of choice(range(n), replace = False): each
\* call draws one slot, independently of the others
Draws(n, n_active) == [1..n_active -> 1..n]

InitSwarm ==
    /\ settings \in { Settings(MonitorWith(180), 4, 4, 30, <<"jumping_circle">>,
                               <<1>>, <<"hor_right">>) }
    /\ sections = << TutorialSection >>
    /\ cur = 1
    /\ pc = "swarm"
    /\ req_sec = [num |-> 0, den |-> 1]
    /\ stimulus = NoStimulus
    /\ rows = <<>>
    /\ frame = 0
    /\ target_position = <<0, 0>>
    /\ now = 0
    /\ trial_start = 0
    /\ keybuf = {}
    /\ el = TrackerReady
    /\ file = <<>>
    /\ log = <<>>
    /\ traj = NoTrajectory
    /\ \E n \in 1..MaxElements : \E n_active \in 0..n :
       \E k \in {None, 1, 2, 3} : \E draws \in Draws(n, n_active) :
         swarm = [n |-> n, n_active |-> n_active, update_frequency |-> k,
                  opacities |-> Resample(n, draws)]

\* SwarmStimulus.update: the condition under which the visible set is drawn anew
SwarmGate(update_frequency, current_frame, final_update) ==
    current_frame % update_frequency = 0

\* SwarmStimulus.update, called with current_frame = frame + 1 and either
\* value of final_update; log holds the call and what it did
SwarmUpdate ==
    /\ pc = "swarm"
    /\ frame < MaxTime
    /\ frame' = frame + 1
    /\ \E final \in BOOLEAN :
         IF swarm.update_frequency # None
               /\ SwarmGate(swarm.update_frequency, frame + 1, final)
         THEN /\ \E draws \in Draws(swarm.n, swarm.n_active) :
                   swarm' = [swarm EXCEPT !.opacities = Resample(swarm.n, draws)]
              /\ log' = << Event("resample", None, frame + 1, final) >>
         ELSE /\ swarm' = swarm
              /\ log' = << Event("keep", None, frame + 1, final) >>
    /\ UNCHANGED <<settings, sections, cur, pc, req_sec, stimulus, rows,
                   target_position, now, trial_start, keybuf, el, file, traj>>

NextSwarm == SwarmUpdate

SpecSwarm == InitSwarm /\ [][NextSwarm]_vars

\* C20: with update_frequency = k, SwarmStimulus.update draws the visible
\* set anew at exactly the calls where the gate of JumpingCircle.update
\* fires: frame index 1, a multiple of k, or final_update.
C20_SwarmGateIsJumpGate ==
    (pc = "swarm" /\ log # <<>> /\ swarm.update_frequency # None)
        => (log[1].op = "resample"
              <=> JumpGate(swarm.update_frequency, log[1].frame, log[1].final))

\* C7: after construction and after every resampling exactly n_active of the
\* n elements have opacity 1 and the other n - n_active have opacity 0.
C7_ExactlyNActive ==
    pc = "swarm"
        => /\ Cardinality({ j \in 1..swarm.n : swarm.opacities[j] = 1 }) = swarm.n_active
           /\ Cardinality({ j \in 1..swarm.n : swarm.opacities[j] = 0 })
                = swarm.n - swarm.n_active

-----------------------------------------------------------------------------
(* The stimuli with a periodic policy together: a circle or an array built
   by initialize_stimulus or without update_frequency, or a swarm, and any
   update calls on it. *)

InitStimuli == InitStim \/ InitSwarm

NextStimuli == NextStim \/ NextSwarm

SpecStimuli == InitStimuli /\ [][NextStimuli]_vars

\* C15: with update_frequency = None no update call changes what the
\* periodic policy controls: a JumpingCircle stays at the position it was
\* built at and returns it (final update included), a BackAndForthArray keeps
\* its element offset and its toggle, a SwarmStimulus keeps its visible set.
C15_NoneNeverUpdates ==
    [][ /\ (pc = "stim_built" /\ stimulus.type = "jumping_circle"
              /\ stimulus.update_frequency = None)
            => /\ stimulus'.target_pos = stimulus.pos
               /\ target_position' = stimulus.pos
        /\ (pc = "stim_built" /\ stimulus.type = "back_and_forth_array"
              /\ stimulus.update_frequency = None)
            => /\ stimulus'.xys = stimulus.xys
               /\ stimulus'.back = stimulus.back
        /\ (pc = "swarm" /\ swarm.update_frequency = None)
            => swarm'.opacities = swarm.opacities ]_vars

\* C15 witness: a jumping circle built without update_frequency, after a
\* final update at time 2 with frame index 1, still at its start position
C15_Witness ==
    /\ pc = "stim_built"
    /\ stimulus.type = "jumping_circle"
    /\ stimulus.update_frequency = None
    /\ log # <<>>
    /\ log[1].final
    /\ frame = 1
    /\ now = 2
    /\ stimulus.target_pos = stimulus.pos

-----------------------------------------------------------------------------
(* experiment.py: Experiment.run over sections of any kind.  A section is
   given by what its run() returns: None (SPTextSection), a list of rows, or
   a value of another type such as the data dict that ExperimentSection.run
   names.  `rows` is the local variable rows of Experiment.run. *)

\* a value returned by section.run(): its type and, for a list, its elements
Returned(type, list) == [type |-> type, list |-> list]

\* the rows of section i when it returns k of them
RowsOf(i, k) ==
    [ j \in 1..k |-> [Data(Name("Section", i), i, "moving_circle", 1, "hor_right")
                         EXCEPT !.experiment_time = j] ]

\* the sections tried: each returns None, a dict, or a list of 0..MaxRows rows
SectionsOfRun ==
    UNION { [1..n -> { <<"NoneType", 0>>, <<"dict", 0>> }
                       \cup { <<"list", k>> : k \in 0..MaxRows }]
            : n \in 1..MaxSections }

InitRun ==
    /\ settings \in { Settings(MonitorWith(180), 4, 4, 30, <<"moving_circle">>,
                               <<1>>, <<"hor_right">>) }
    /\ \E kinds \in SectionsOfRun :
         sections = [ i \in DOMAIN kinds |->
                        [cls |-> "ExperimentSection",
                         data |-> Data(Name("Section", i), i, "moving_circle", 1, "hor_right"),
                         returns |-> Returned(kinds[i][1], RowsOf(i, kinds[i][2]))] ]
    /\ cur = 1
    /\ pc = "section"
    /\ req_sec = [num |-> 0, den |-> 1]
    /\ stimulus = NoStimulus
    /\ rows = Returned("NoneType", <<>>)
    /\ frame = 0
    /\ target_position = <<0, 0>>
    /\ now = 0
    /\ trial_start = 0
    /\ keybuf = {}
    /\ el = TrackerReady
    /\ file = <<>>
    /\ log = <<>>
    /\ swarm = NoSwarm
    /\ traj = NoTrajectory

\* a loop body that goes on after any value that is not a list
RowsBranchLenient(ret) == IF ret.type = "list" THEN "write" ELSE "continue"

\* the branch Experiment.run takes on rows = section.run()
RowsBranch(ret) ==
    IF ret.type = "NoneType" THEN "continue"
    ELSE IF ret.type # "list" THEN "raise"
    ELSE "write"

\* where the for loop is after the body has run for section cur
AfterSection == IF cur + 1 > Len(sections) THEN "finalize" ELSE "section"

\* one pass of the for loop: rows = section.run() is None, continue
SectionReturnsNone ==
    /\ pc = "section"
    /\ RowsBranch(sections[cur].returns) = "continue"
    /\ rows' = sections[cur].returns
    /\ log' = Append(log, Event("run", cur, 0, FALSE))
    /\ cur' = cur + 1
    /\ pc' = AfterSection
    /\ UNCHANGED <<settings, sections, req_sec, stimulus, frame, target_position,
                   now, trial_start, keybuf, el, file, swarm, traj>>

\* one pass of the for loop: rows is neither None nor a list,
\* raise Exception("Section must return a list or None")
SectionReturnsOther ==
    /\ pc = "section"
    /\ RowsBranch(sections[cur].returns) = "raise"
    /\ rows' = sections[cur].returns
    /\ log' = log \o << Event("run", cur, 0, FALSE), Event("error", cur, 0, FALSE) >>
    /\ pc' = "raised"
    /\ UNCHANGED <<settings, sections, cur, req_sec, stimulus, frame, target_position,
                   now, trial_start, keybuf, el, file, swarm, traj>>

\* one pass of the for loop: rows is a list, write_row_to_data_file(rows)
SectionReturnsList ==
    /\ pc = "section"
    /\ RowsBranch(sections[cur].returns) = "write"
    /\ rows' = sections[cur].returns
    /\ file' = WriteRowToDataFile(file, sections[cur].returns.list)
    /\ log' = log \o << Event("run", cur, 0, FALSE),
                        Event("write", cur, Len(sections[cur].returns.list), FALSE) >>
    /\ cur' = cur + 1
    /\ pc' = AfterSection
    /\ UNCHANGED <<settings, sections, req_sec, stimulus, frame, target_position,
                   now, trial_start, keybuf, el, swarm, traj>>

NextRun ==
    \/ SectionReturnsNone
    \/ SectionReturnsOther
    \/ SectionReturnsList
    \/ FinalizeExperiment

SpecRun == InitRun /\ [][NextRun]_vars

\* the lists returned by the sections 1..n, one after the other
RECURSIVE ListsUpTo(_)
ListsUpTo(n) ==
    IF n = 0 THEN <<>>
    ELSE ListsUpTo(n - 1)
           \o (IF sections[n].returns.type = "list" THEN sections[n].returns.list ELSE <<>>)

-----------------------------------------------------------------------------
(* trajectory.py: a constructor on its own.  Any of the four classes is
   called with arguments of any type; traj is the object while __init__
   runs: the attributes assigned so far, the statement to run next, and
   whether a statement has raised. *)

\* the calls: the linear classes take (distance_px, direction), the circular
\* class (radius, direction, start, monitor)
ConstructorCalls ==
    { [cls |-> cls, args |-> ConstructorArgs(d, dir, "int", MonitorNone)] :
        cls \in {"Horizontal", "Vertical", "Diagonal"}, d \in ArgTypes, dir \in Directions }
      \cup { [cls |-> "Circular", args |-> ConstructorArgs(d, dir, st, m)] :
               d \in ArgTypes, dir \in Directions, st \in ArgTypes, m \in MonitorArgs }

InitTraj ==
    /\ settings \in { Settings(MonitorWith(180), 4, 4, 30, <<"moving_circle">>,
                               <<1>>, <<"hor_right">>) }
    /\ sections = << TutorialSection >>
    /\ cur = 1
    /\ pc = "trajectory"
    /\ req_sec = [num |-> 0, den |-> 1]
    /\ stimulus = NoStimulus
    /\ rows = <<>>
    /\ frame = 0
    /\ target_position = <<0, 0>>
    /\ now = 0
    /\ trial_start = 0
    /\ keybuf = {}
    /\ el = TrackerReady
    /\ file = <<>>
    /\ log = <<>>
    /\ swarm = NoSwarm
    /\ \E call \in ConstructorCalls :
         traj = [cls |-> call.cls, args |-> call.args, attrs |-> {},
                 next |-> 1, raised |-> FALSE]

Running ==
    /\ pc = "trajectory"
    /\ ~traj.raised
    /\ traj.next <= Len(InitOf(traj.cls))

\* the statement __init__ is at
Statement == InitOf(traj.cls)[traj.next]

\* a test whose condition is false: on to the next statement
ConstructorTestPasses ==
    /\ Running
    /\ Statement.kind = "check"
    /\ ~Raises(traj.cls, Statement, traj.args)
    /\ traj' = [traj EXCEPT !.next = @ + 1]
    /\ UNCHANGED <<settings, sections, cur, pc, req_sec, stimulus, rows, frame,
                   target_position, now, trial_start, keybuf, el, file, log, swarm>>

\* self.<attribute> = ...
ConstructorAssigns ==
    /\ Running
    /\ Statement.kind \in {"assign", "assign_px_to_deg"}
    /\ ~Raises(traj.cls, Statement, traj.args)
    /\ traj' = [traj EXCEPT !.attrs = @ \cup {Statement.what}, !.next = @ + 1]
    /\ UNCHANGED <<settings, sections, cur, pc, req_sec, stimulus, rows, frame,
                   target_position, now, trial_start, keybuf, el, file, log, swarm>>

\* a statement raises: __init__ is left with what was assigned so far
ConstructorRaises ==
    /\ Running
    /\ Raises(traj.cls, Statement, traj.args)
    /\ traj' = [traj EXCEPT !.raised = TRUE]
    /\ UNCHANGED <<settings, sections, cur, pc, req_sec, stimulus, rows, frame,
                   target_position, now, trial_start, keybuf, el, file, log, swarm>>

NextTraj == ConstructorTestPasses \/ ConstructorAssigns \/ ConstructorRaises

SpecTraj == InitTraj /\ [][NextTraj]_vars

\* the causes of a raise: an unrecognised direction, a non-numeric distance,
\* radius or start, a monitor that is not a dict or lacks a key
InvalidArguments ==
    \/ traj.args.distance \notin NumericTypes
    \/ traj.args.direction \notin ValidDirections(traj.cls)
    \/ /\ traj.cls = "Circular"
       /\ \/ traj.args.start \notin NumericTypes
          \/ traj.args.monitor.type # "dict"
          \/ ~(MonitorKeys \subseteq traj.args.monitor.keys)

\* C13: a constructor called with an unrecognised direction, a non-numeric
\* distance, radius or start, or (circular) a monitor that is not a dict or
\* lacks 'distance', 'resolution' or 'height' raises, and no attribute of the
\* object has been assigned at any point of the call.
C13_RaisesBeforeAssigning ==
    InvalidArguments =>
        /\ traj.attrs = {}
        /\ traj.next <= Len(InitOf(traj.cls))
        /\ ENABLED NextTraj \/ traj.raised

\* C13 witness: CircularTrajectory called with a dict that lacks 'height'
\* (all else valid) has raised at the last test, nothing assigned
C13_Witness ==
    /\ traj.cls = "Circular"
    /\ traj.args.monitor.type = "dict"
    /\ traj.args.monitor.keys = {"distance", "resolution"}
    /\ traj.raised
    /\ traj.next = 7
    /\ traj.attrs = {}

\* C29: once the run has ended, whichever way, the tracker session has been
\* ended exactly once by end_session: not recording, data file closed and
\* retrieved, link closed; and it is never ended twice.
C29_SessionEndedOnce ==
    /\ el.sessions_ended <= 1
    /\ pc \in {"raised", "exited"}
         => /\ el.sessions_ended = 1
            /\ ~el.recording
            /\ ~el.edf_open
            /\ el.edf_received
            /\ ~el.connected

-----------------------------------------------------------------------------
(* experiment.py: Experiment.prepare_experiment on its own, for settings
   with several repetitions, speeds, trajectories and types *)

\* settings with the given number of repetitions
WithRepetitions(st, repetitions) == [st EXCEPT !.trials.repetitions = repetitions]

\* the trial settings tried (the entries of a list are distinct): up to four
\* blocks of up to two sections, or up to two blocks of four, or one of three
SetupSettings ==
    { st \in { WithRepetitions(Settings(MonitorWith(180), 4, 4, 30, tys, sps, trs), r) :
                 r \in {1, 2},
                 sps \in { <<1>>, <<1, 2>> },
                 tys \in { <<"moving_circle">>, <<"moving_circle", "jumping_circle">> },
                 trs \in { <<"hor_right">>, <<"ver_up", "hor_right">> } } :
        Len(st.trials.target_types) * Len(st.trials.target_trajectories) = 4
          => st.trials.repetitions * Len(st.trials.target_speeds) <= 2 }
      \cup { Settings(MonitorWith(180), 4, 4, 30,
                      <<"back_and_forth_array", "moving_circle", "jumping_circle">>,
                      <<2>>, <<"diag_up_left">>) }

InitSetup ==
    /\ settings \in SetupSettings
    /\ sections = <<>>
    /\ cur = 1
    /\ pc = "prepare"
    /\ req_sec = [num |-> 0, den |-> 1]
    /\ stimulus = NoStimulus
    /\ rows = <<>>
    /\ frame = 0
    /\ target_position = <<0, 0>>
    /\ now = 0
    /\ trial_start = 0
    /\ keybuf = {}
    /\ el = TrackerReady
    /\ file = <<>>
    /\ log = <<>>
    /\ swarm = NoSwarm
    /\ traj = NoTrajectory

\* Experiment.run: self.prepare_experiment(), i.e. setup_sections() with any
\* outcome of the shuffles, and the data file created with its header only
PrepareExperiment ==
    /\ pc = "prepare"
    /\ sections' \in SetupSections(settings)
    /\ file' = <<>>
    /\ pc' = "section"
    /\ UNCHANGED <<settings, cur, req_sec, stimulus, rows, frame, target_position,
                   now, trial_start, keybuf, el, log, swarm, traj>>

NextSetup == PrepareExperiment

SpecSetup == InitSetup /\ [][NextSetup]_vars

\* the positions in the section list of the b-th (repetition, speed) block
BlockPositions(b) ==
    LET bsize == Len(settings.trials.target_trajectories) * Len(settings.trials.target_types)
    IN  (2 + (b - 1) * bsize)..(1 + b * bsize)

\* C30: after setup_sections the list is the tutorial (trial_number 0)
\* followed by repetitions x speeds x trajectories x types trial sections
\* numbered 1..N in list order; the sections of a (repetition, speed) block
\* are contiguous and hold each (trajectory, type) combination exactly once;
\* no two sections share a data dict.
C30_SectionList ==
    pc = "section"
        => LET tr      == settings.trials
               nspeeds == Len(tr.target_speeds)
               nblocks == tr.repetitions * nspeeds
               N       == nblocks * Len(tr.target_trajectories) * Len(tr.target_types)
           IN  /\ Len(sections) = 1 + N
               /\ sections[1].cls = "SPTrialTutorial"
               /\ sections[1].data.trial_number = 0
               /\ \A i \in 2..(1 + N) :
                    /\ sections[i].cls = "SPTrialSection"
                    /\ sections[i].data.trial_number = i - 1
                    /\ sections[i].name = Name("Trial", i - 1)
               /\ \A b \in 1..nblocks :
                    /\ \A i \in BlockPositions(b) :
                         sections[i].data.target_speed
                           = tr.target_speeds[((b - 1) % nspeeds) + 1]
                    /\ \A t \in 1..Len(tr.target_trajectories) :
                       \A y \in 1..Len(tr.target_types) :
                         Cardinality({ i \in BlockPositions(b) :
                                         /\ sections[i].data.target_trajectory
                                              = tr.target_trajectories[t]
                                         /\ sections[i].data.target_type
                                              = tr.target_types[y] }) = 1
               /\ \A i, j \in 1..(1 + N) : sections[i].dict = sections[j].dict => i = j

\* C30 witness: two repetitions of two speeds with two types each; the
\* shuffle has put the type listed second in front in the first block and
\* left the third block in construction order
C30_Witness ==
    /\ pc = "section"
    /\ settings.trials.repetitions = 2
    /\ Len(sections) = 9
    /\ sections[2].data.target_type = "jumping_circle"
    /\ sections[2].dict = 2
    /\ sections[6].data.target_type = "moving_circle"
    /\ sections[6].data.target_speed = 1
    /\ sections[8].data.target_speed = 2

=============================================================================
